---- MODULE Spec2Model ----
(***************************************************************************)
(* ItemManagement (src/app.py, src/forms.py): a Flask CRUD application.    *)
(* The model covers the WTForms validation layer, the sqlite tables users  *)
(* and items, the Flask-Login session binding and the request handlers.    *)
(*                                                                         *)
(* Text is modelled as a sequence of lexemes.  A lexeme is a run of        *)
(* characters written as a TLA+ string ("a", " ", "<script>", "or", ...);  *)
(* its width is its number of characters.  Trimming, upper-casing, length  *)
(* and the regular expressions work on these sequences as the Python code  *)
(* works on the characters.                                                *)
(***************************************************************************)
EXTENDS Integers, Sequences, FiniteSets, TLC

(* ---------------------------------------------------------------------- *)
(* Lexemes                                                                 *)
(* ---------------------------------------------------------------------- *)

\* Two filler lexemes: a run of 249 (4999) letters 'x', to reach the length
\* limits of the title and the description without 250 separate lexemes.
PadTitle == "x{249}"
PadDesc == "x{4999}"

Width(tok) ==
    IF tok = PadTitle THEN 249 ELSE IF tok = PadDesc THEN 4999 ELSE Len(tok)

\* Python's str.strip() and the regex class \s: blank, newline, tab.
Space == {" ", "\n", "\t"}

\* The regex class \d.
Digits == {"1", "0"}

\* str.upper() on one lexeme.  Lexemes without a lower-case letter are kept.
UpperMap ==
    ("union" :> "UNION") @@ ("select" :> "SELECT") @@ ("drop" :> "DROP")
    @@ ("table" :> "TABLE") @@ ("insert" :> "INSERT") @@ ("into" :> "INTO")
    @@ ("update" :> "UPDATE") @@ ("set" :> "SET") @@ ("delete" :> "DELETE")
    @@ ("from" :> "FROM") @@ ("or" :> "OR") @@ ("and" :> "AND")
    @@ ("<script>" :> "<SCRIPT>") @@ ("</script>" :> "</SCRIPT>")
    @@ ("javascript:" :> "JAVASCRIPT:") @@ ("onerror" :> "ONERROR")
    @@ ("onload" :> "ONLOAD") @@ ("<iframe" :> "<IFRAME")
    @@ ("a" :> "A") @@ ("b" :> "B") @@ ("al" :> "AL") @@ ("bob" :> "BOB")
    @@ ("alice" :> "ALICE") @@ ("alice@example.com" :> "ALICE@EXAMPLE.COM")
    @@ ("bob@example.com" :> "BOB@EXAMPLE.COM")
    @@ ("alice.example.com" :> "ALICE.EXAMPLE.COM")
    @@ ("password123" :> "PASSWORD123") @@ ("hunter2hunter2" :> "HUNTER2HUNTER2")
    @@ ("short" :> "SHORT") @@ ("x{249}" :> "X{249}") @@ ("x{4999}" :> "X{4999}")

HasLower == DOMAIN UpperMap

ToUpper(tok) == IF tok \in HasLower THEN UpperMap[tok] ELSE tok

\* field.data.upper()
Upper(s) == [i \in DOMAIN s |-> ToUpper(s[i])]

\* len(field.data)
RECURSIVE StrLen(_)
StrLen(s) == IF s = <<>> THEN 0 ELSE Width(Head(s)) + StrLen(Tail(s))

\* Whether a lexeme starts (ends) with a word character [A-Za-z0-9_], for \b.
NonWord == Space \cup {"<script>", "</script>", "<SCRIPT>", "</SCRIPT>", "'", "=", "--", ";"}
StartsWord(tok) == tok \notin NonWord /\ tok # "<iframe"
EndsWord(tok) == tok \notin NonWord /\ tok # "javascript:"

(* ---------------------------------------------------------------------- *)
(* forms.py: strip_filter                                                  *)
(* ---------------------------------------------------------------------- *)

RECURSIVE LStrip(_)
LStrip(s) == IF s # <<>> /\ Head(s) \in Space THEN LStrip(Tail(s)) ELSE s

RECURSIVE RStrip(_)
RStrip(s) ==
    IF s # <<>> /\ s[Len(s)] \in Space THEN RStrip(SubSeq(s, 1, Len(s) - 1)) ELSE s

\* str.strip()
Strip(s) == RStrip(LStrip(s))

\* Faulty variant: the field declared without filters=[strip_filter].
strip_filter_absent(value) == value

\* value.strip() if value else value
strip_filter(value) == IF value # <<>> THEN Strip(value) ELSE value

(* ---------------------------------------------------------------------- *)
(* forms.py: reject_malicious_input.  A pattern is a sequence of elements: *)
(* a lexeme class taken once, optionally or any number of times, the word  *)
(* boundary \b, or the end anchor $.                                       *)
(* ---------------------------------------------------------------------- *)

One(S) == [k |-> "set", set |-> S, q |-> "one"]
Opt(S) == [k |-> "set", set |-> S, q |-> "opt"]
Star(S) == [k |-> "set", set |-> S, q |-> "star"]
WordB == [k |-> "b", set |-> {}, q |-> "one"]
EndA == [k |-> "end", set |-> {}, q |-> "one"]

\* The regex '.*' without re.DOTALL: a run of characters other than newlines.
DotStar == [k |-> "dot", set |-> {}, q |-> "star"]

\* re.IGNORECASE: a lexeme is in a class when it is so up to letter case.
InClass(tok, S) == \E t \in S : ToUpper(t) = ToUpper(tok)

\* Whether element e of a pattern takes the lexeme tok.
Takes(e, tok) == IF e.k = "dot" THEN tok # "\n" ELSE InClass(tok, e.set)

\* \b between positions p-1 and p of s.
Boundary(s, p) ==
    LET before == p > 1 /\ p - 1 <= Len(s) /\ EndsWord(s[p - 1])
        after == p >= 1 /\ p <= Len(s) /\ StartsWord(s[p])
    IN  before # after

\* $ without re.MULTILINE: the end of the string, or just before a final newline.
AtEnd(s, p) == p = Len(s) + 1 \/ (p = Len(s) /\ s[p] = "\n")

\* The positions at which a match of pat[k..] that starts at position p may end.
RECURSIVE MatchEnds(_, _, _, _)
MatchEnds(pat, k, s, p) ==
    IF k > Len(pat) THEN {p}
    ELSE LET e == pat[k]
             here == p <= Len(s) /\ Takes(e, s[p])
         IN  CASE e.k = "b" -> IF Boundary(s, p) THEN MatchEnds(pat, k + 1, s, p) ELSE {}
               [] e.k = "end" -> IF AtEnd(s, p) THEN MatchEnds(pat, k + 1, s, p) ELSE {}
               [] e.q = "one" -> IF here THEN MatchEnds(pat, k + 1, s, p + 1) ELSE {}
               [] e.q = "opt" ->
                    MatchEnds(pat, k + 1, s, p)
                    \cup (IF here THEN MatchEnds(pat, k + 1, s, p + 1) ELSE {})
               [] OTHER ->
                    MatchEnds(pat, k + 1, s, p)
                    \cup (IF here THEN MatchEnds(pat, k, s, p + 1) ELSE {})

\* re.search(pattern, data, re.IGNORECASE)
Search(pat, s) == \E p \in 1..(Len(s) + 1) : MatchEnds(pat, 1, s, p) # {}

KeywordPair(k1, k2) ==
    <<WordB, One({k1}), WordB, DotStar, WordB, One({k2}), WordB>>

\* <script[^>]*>.*?</script> : the opening tag is one lexeme, so [^>]* is
\* inside it; .*? is a run of characters other than a newline.
ScriptPattern == <<One({"<script>"}), DotStar, One({"</script>"})>>

\* '\s*(OR|AND)\s*'?\d*'?\s*=\s*'?\d*
TautologyPattern ==
    <<One({"'"}), Star(Space), One({"OR", "AND"}), Star(Space), Opt({"'"}),
      Star(Digits), Opt({"'"}), Star(Space), One({"="}), Star(Space), Opt({"'"}),
      Star(Digits)>>

suspicious_patterns ==
    <<KeywordPair("UNION", "SELECT"),
      KeywordPair("DROP", "TABLE"),
      KeywordPair("INSERT", "INTO"),
      KeywordPair("UPDATE", "SET"),
      KeywordPair("DELETE", "FROM"),
      ScriptPattern,
      <<One({"javascript:"})>>,
      <<One({"onerror"}), Star(Space), One({"="})>>,
      <<One({"onload"}), Star(Space), One({"="})>>,
      <<One({"<iframe"})>>,
      <<One({"--"}), Star(Space), EndA>>,
      <<One({";"}), Star(Space), One({"DROP"})>>,
      TautologyPattern>>

\* TRUE when the validator raises ValidationError.
reject_malicious_input(data) ==
    /\ data # <<>>
    /\ \E i \in DOMAIN suspicious_patterns : Search(suspicious_patterns[i], Upper(data))

(* ---------------------------------------------------------------------- *)
(* forms.py: the validators of a field and the three forms                 *)
(* ---------------------------------------------------------------------- *)

TitleMin == 1
TitleMax == 250
DescriptionMax == 5000
UsernameMin == 3
UsernameMax == 50
EmailMax == 120
PasswordMin == 8
PasswordMax == 128
LoginUsernameMax == 50

\* wtforms DataRequired: the data is truthy and, for a string, not blank.
DataRequired(data) == data # <<>> /\ Strip(data) # <<>>

\* wtforms Length(min, max); -1 is "no bound".
Length(data, min, max) ==
    StrLen(data) >= min /\ (max = -1 \/ StrLen(data) <= max)

\* wtforms Email: the text is one well-formed address.
Addresses == {"alice@example.com", "bob@example.com"}
Email(data) == Len(data) = 1 /\ data[1] \in Addresses

\* Faulty variant: the field declared without its DataRequired validator.
ChainErrorsUnrequired(data, required, min, max, malicious) ==
    (IF Length(data, min, max) THEN {} ELSE {"LengthViolation"})
    \cup (IF malicious /\ reject_malicious_input(data) THEN {"SuspiciousInput"} ELSE {})

\* The validator chain of a text field.  DataRequired stops the chain
\* (StopValidation); the other validators each add their error.
ChainErrors(data, required, min, max, malicious) ==
    IF required /\ ~DataRequired(data) THEN {"MissingField"}
    ELSE (IF Length(data, min, max) THEN {} ELSE {"LengthViolation"})
         \cup (IF malicious /\ reject_malicious_input(data)
               THEN {"SuspiciousInput"} ELSE {})

OnField(name, kinds) == {<<name, k>> : k \in kinds}

\* ItemForm: raw = <<title, description>>
ItemForm(raw) ==
    LET title == strip_filter(raw[1])
        description == strip_filter(raw[2])
    IN  [title |-> title,
         description |-> description,
         errors |->
            OnField("title", ChainErrors(title, TRUE, TitleMin, TitleMax, TRUE))
            \cup OnField("description",
                         ChainErrors(description, FALSE, -1, DescriptionMax, TRUE))]

\* RegistrationForm: raw = <<username, email, password, confirm_password>>
RegistrationForm(raw) ==
    LET username == strip_filter(raw[1])
        email == strip_filter(raw[2])
        password == raw[3]
        confirm == raw[4]
    IN  [username |-> username,
         email |-> email,
         password |-> password,
         errors |->
            OnField("username",
                    ChainErrors(username, TRUE, UsernameMin, UsernameMax, TRUE))
            \cup OnField("email",
                    IF ~DataRequired(email) THEN {"MissingField"}
                    ELSE (IF Email(email) THEN {} ELSE {"InvalidFormat"})
                         \cup (IF Length(email, -1, EmailMax) THEN {}
                               ELSE {"LengthViolation"}))
            \cup OnField("password",
                    ChainErrors(password, TRUE, PasswordMin, PasswordMax, FALSE))
            \cup OnField("confirm_password",
                    IF ~DataRequired(confirm) THEN {"MissingField"}
                    ELSE IF confirm # password THEN {"MismatchViolation"} ELSE {})]

\* LoginForm: raw = <<username, password>>
LoginForm(raw) ==
    LET username == strip_filter(raw[1])
        password == raw[2]
    IN  [username |-> username,
         password |-> password,
         errors |->
            OnField("username",
                    ChainErrors(username, TRUE, -1, LoginUsernameMax, FALSE))
            \cup OnField("password", ChainErrors(password, TRUE, -1, -1, FALSE))]

(* ---------------------------------------------------------------------- *)
(* State                                                                   *)
(* ---------------------------------------------------------------------- *)

VARIABLES
    users,      \* table users: rows [id, username, email, password_hash]
    items,      \* table items: rows [id, title, description, user_id, created_at]
    userSeq,    \* sqlite_sequence of users (AUTOINCREMENT)
    itemSeq,    \* sqlite_sequence of items (AUTOINCREMENT)
    clock,      \* CURRENT_TIMESTAMP, in seconds
    session,    \* per browser session: the bound user id, 0 when anonymous
    pending,    \* per session: the register request between its SELECT and INSERT
    resp        \* the last response sent

vars == <<users, items, userSeq, itemSeq, clock, session, pending, resp>>

Clients == {"c1", "c2"}

PAGE_SIZE == 6

\* bcrypt.generate_password_hash / check_password_hash (the salt is not modelled).
generate_password_hash(password) == <<"$2b$12$">> \o password
\* Faulty variant: a check that accepts every password.
check_password_any(hash, password) == TRUE
check_password_hash(hash, password) == hash = generate_password_hash(password)

Response(op, c, status, errors, form, arg) ==
    [op |-> op, client |-> c, user |-> session[c], status |-> status,
     errors |-> errors, form |-> form, arg |-> arg,
     rows |-> <<>>, total |-> 0, total_pages |-> 0]

\* Flask-Login @login_required: an anonymous request is redirected to login.
Refused(op, c, form, arg) ==
    /\ session[c] = 0
    /\ resp' = Response(op, c, "login_required", {}, form, arg)
    /\ UNCHANGED <<users, items, userSeq, itemSeq, clock, session, pending>>

(* ---------------------------------------------------------------------- *)
(* app.py: query_items                                                     *)
(* ---------------------------------------------------------------------- *)

\* text LIKE '%q%': sqlite's LIKE ignores the case of ASCII letters.
Like(text, q) ==
    \E i \in 1..(Len(text) + 1) :
        /\ i + Len(q) - 1 <= Len(text)
        /\ SubSeq(Upper(text), i, i + Len(q) - 1) = Upper(q)

Matching(search) ==
    IF search = <<>> THEN items
    ELSE {r \in items : Like(r.title, search) \/ Like(r.description, search)}

\* ORDER BY created_at DESC: every order of the rows that is descending in
\* created_at.  The statement names no second key, so rows of the same second
\* come in an order SQL leaves to the engine.
RECURSIVE Orders(_)
Orders(S) ==
    IF S = {} THEN {<<>>}
    ELSE LET newest == {r \in S : \A o \in S : o.created_at <= r.created_at}
         IN  UNION {{<<r>> \o rest : rest \in Orders(S \ {r})} : r \in newest}

\* LIMIT ? OFFSET ?
Slice(seq, limit, offset) ==
    SubSeq(seq, offset + 1, IF offset + limit < Len(seq) THEN offset + limit ELSE Len(seq))

\* The results query_items may return: <<items, total>>.
query_items(search, page, page_size) ==
    LET total == Cardinality(Matching(search))
        offset == (page - 1) * page_size
    IN  {<<Slice(o, page_size, offset), total>> : o \in Orders(Matching(search))}

\* Faulty variant: the page count with floor division, max(1, total // PAGE_SIZE).
TotalPagesFloor(total) ==
    IF total \div PAGE_SIZE < 1 THEN 1 ELSE total \div PAGE_SIZE

\* max(1, math.ceil(total / PAGE_SIZE))
TotalPages(total) ==
    LET c == (total + PAGE_SIZE - 1) \div PAGE_SIZE IN IF c < 1 THEN 1 ELSE c

(* ---------------------------------------------------------------------- *)
(* app.py: the tables                                                      *)
(* ---------------------------------------------------------------------- *)

\* Faulty variant: the users table created without its UNIQUE constraints.
NoUniqueConstraint(username, email) == FALSE

\* users.username UNIQUE, users.email UNIQUE: an INSERT of a taken username
\* or email raises sqlite3.IntegrityError.
UniqueViolation(username, email) ==
    \E u \in users : u.username = username \/ u.email = email

\* INSERT INTO items (title, description, user_id); id is AUTOINCREMENT and
\* created_at defaults to CURRENT_TIMESTAMP.
InsertItem(title, description, user_id) ==
    [id |-> itemSeq + 1, title |-> title, description |-> description,
     user_id |-> user_id, created_at |-> clock]

\* Faulty variant: the UPDATE without its WHERE clause.
UpdateRowsNoWhere(S, item_id, title, description) ==
    {[r EXCEPT !.title = title, !.description = description] : r \in S}

\* UPDATE items SET title = ?, description = ? WHERE id = ?
UpdateRows(S, item_id, title, description) ==
    {IF r.id = item_id
     THEN [r EXCEPT !.title = title, !.description = description]
     ELSE r : r \in S}

\* Faulty variant: DELETE FROM items WHERE id >= ?
DeleteRowsFrom(S, item_id) == {r \in S : r.id < item_id}

\* DELETE FROM items WHERE id = ?
DeleteRows(S, item_id) == {r \in S : r.id # item_id}

\* SELECT * FROM items WHERE id = ?  (the rows found: none or one)
SelectItem(item_id) == {r \in items : r.id = item_id}

(* ---------------------------------------------------------------------- *)
(* app.py: the request handlers.  c is the browser session that sends the  *)
(* request, raw the submitted form.  A session sends one request at a time.*)
(* ---------------------------------------------------------------------- *)

Idle(c) == pending[c] = <<>>

\* register(), up to the existence check.
RegisterBegin(c, raw) ==
    /\ Idle(c)
    /\ \E form \in {RegistrationForm(raw)} :
           IF session[c] # 0
           THEN /\ resp' = Response("register", c, "redirect", {}, raw, 0)
                /\ UNCHANGED pending
           ELSE IF form.errors # {}
           THEN /\ resp' = Response("register", c, "invalid", form.errors, raw, 0)
                /\ UNCHANGED pending
           ELSE IF \E u \in users : u.username = form.username \/ u.email = form.email
           THEN /\ resp' = Response("register", c, "duplicate", {}, raw, 0)
                /\ UNCHANGED pending
           ELSE /\ pending' = [pending EXCEPT ![c] =
                                  <<[username |-> form.username, email |-> form.email,
                                     password |-> form.password, raw |-> raw]>>]
                /\ UNCHANGED resp
    /\ UNCHANGED <<users, items, userSeq, itemSeq, clock, session>>

\* register(), from the password hash to the INSERT and the commit.  The
\* handler catches nothing: an IntegrityError ends the request with a 500.
RegisterInsert(c) ==
    /\ pending[c] # <<>>
    /\ LET f == pending[c][1]
       IN  IF UniqueViolation(f.username, f.email)
           THEN /\ resp' = Response("register", c, "error500", {}, f.raw, 0)
                /\ UNCHANGED <<users, userSeq>>
           ELSE /\ users' = users \cup
                       {[id |-> userSeq + 1, username |-> f.username, email |-> f.email,
                         password_hash |-> generate_password_hash(f.password)]}
                /\ userSeq' = userSeq + 1
                /\ resp' = Response("register", c, "ok", {}, f.raw, userSeq + 1)
    /\ pending' = [pending EXCEPT ![c] = <<>>]
    /\ UNCHANGED <<items, itemSeq, clock, session>>

\* login()
Login(c, raw) ==
    /\ Idle(c)
    /\ \E form \in {LoginForm(raw)} :
           LET found == {u \in users : u.username = form.username} IN
           IF session[c] # 0
           THEN /\ resp' = Response("login", c, "redirect", {}, raw, 0)
                /\ UNCHANGED session
           ELSE IF form.errors # {}
           THEN /\ resp' = Response("login", c, "invalid", form.errors, raw, 0)
                /\ UNCHANGED session
           ELSE IF \E u \in found : check_password_hash(u.password_hash, form.password)
           THEN LET u == CHOOSE u \in found : TRUE
                IN  /\ session' = [session EXCEPT ![c] = u.id]
                    /\ resp' = Response("login", c, "ok", {}, raw, u.id)
           ELSE /\ resp' = Response("login", c, "invalid_credentials", {}, raw, 0)
                /\ UNCHANGED session
    /\ UNCHANGED <<users, items, userSeq, itemSeq, clock, pending>>

\* logout()
Logout(c) ==
    /\ Idle(c)
    /\ \/ Refused("logout", c, <<>>, 0)
       \/ /\ session[c] # 0
          /\ session' = [session EXCEPT ![c] = 0]
          /\ resp' = Response("logout", c, "ok", {}, <<>>, 0)
          /\ UNCHANGED <<users, items, userSeq, itemSeq, clock, pending>>

\* The page rendered by index(): the rows, the total and the page count.
Rendered(r, res) ==
    [r EXCEPT !.rows = res[1], !.total = res[2], !.total_pages = TotalPages(res[2])]

\* index(): q is stripped, page is clamped to >= 1.
Index(c, q, pageArg) ==
    /\ Idle(c)
    /\ LET page == IF pageArg < 1 THEN 1 ELSE pageArg
       IN  \E res \in query_items(Strip(q), page, PAGE_SIZE) :
               resp' = Rendered(Response("index", c, "ok", {}, <<q>>, pageArg), res)
    /\ UNCHANGED <<users, items, userSeq, itemSeq, clock, session, pending>>

\* create()
Create(c, raw) ==
    /\ Idle(c)
    /\ \/ Refused("create", c, raw, 0)
       \/ /\ session[c] # 0
          /\ \E form \in {ItemForm(raw)} :
                 IF form.errors = {}
                 THEN /\ items' = items \cup
                             {InsertItem(form.title, form.description, session[c])}
                      /\ itemSeq' = itemSeq + 1
                      /\ resp' = Response("create", c, "ok", {}, raw, 0)
                 ELSE /\ \E res \in query_items(<<>>, 1, PAGE_SIZE) :
                             resp' = Rendered(Response("create", c, "invalid",
                                                       form.errors, raw, 0), res)
                      /\ UNCHANGED <<items, itemSeq>>
          /\ UNCHANGED <<users, userSeq, clock, session, pending>>

\* view_item()
view_item(c, item_id) ==
    /\ Idle(c)
    /\ LET item == SelectItem(item_id)
       IN  IF item = {}
           THEN resp' = Response("view", c, "not_found", {}, <<>>, item_id)
           ELSE resp' = [Response("view", c, "ok", {}, <<>>, item_id)
                            EXCEPT !.rows = <<CHOOSE r \in item : TRUE>>]
    /\ UNCHANGED <<users, items, userSeq, itemSeq, clock, session, pending>>

\* edit(), POST
Edit(c, item_id, raw) ==
    /\ Idle(c)
    /\ \/ Refused("edit", c, raw, item_id)
       \/ /\ session[c] # 0
          /\ LET item == SelectItem(item_id) IN
             IF item = {}
             THEN /\ resp' = Response("edit", c, "not_found", {}, raw, item_id)
                  /\ UNCHANGED items
             ELSE \E form \in {ItemForm(raw)} :
                  IF form.errors = {}
                  THEN /\ items' = UpdateRows(items, item_id, form.title, form.description)
                       /\ resp' = Response("edit", c, "ok", {}, raw, item_id)
                  ELSE /\ resp' = [Response("edit", c, "invalid", form.errors, raw, item_id)
                                      EXCEPT !.rows = <<CHOOSE r \in item : TRUE>>]
                       /\ UNCHANGED items
          /\ UNCHANGED <<users, userSeq, itemSeq, clock, session, pending>>

\* delete()
Delete(c, item_id) ==
    /\ Idle(c)
    /\ \/ Refused("delete", c, <<>>, item_id)
       \/ /\ session[c] # 0
          /\ items' = DeleteRows(items, item_id)
          /\ resp' = Response("delete", c, "ok", {}, <<>>, item_id)
          /\ UNCHANGED <<users, userSeq, itemSeq, clock, session, pending>>

\* A second passes.
Tick ==
    /\ clock' = clock + 1
    /\ UNCHANGED <<users, items, userSeq, itemSeq, session, pending, resp>>

(* ---------------------------------------------------------------------- *)
(* Spec: the item lifecycle.  Alice and Bob are registered; sessions log   *)
(* in and out and create, view, edit, delete and list items.               *)
(* ---------------------------------------------------------------------- *)

MaxItems == 2
MaxClock == 2

Alice == <<"alice">>
Bob == <<"bob">>
AliceMail == <<"alice@example.com">>
BobMail == <<"bob@example.com">>
Pw1 == <<"password123">>
Pw2 == <<"hunter2hunter2">>

UserRow(id, username, email, password) ==
    [id |-> id, username |-> username, email |-> email,
     password_hash |-> generate_password_hash(password)]

LoginForms == {<<Alice, Pw1>>, <<<<"bob", " ">>, Pw2>>}

ItemForms ==
    {<<<<"a">>, <<>>>>,
     <<<<" ", "b">>, <<"a", "\n">>>>,
     <<<<" ">>, <<"a">>>>}

ItemIds == 1..(MaxItems + 1)

NoResponse ==
    [op |-> "none", client |-> "c1", user |-> 0, status |-> "ok", errors |-> {},
     form |-> <<>>, arg |-> 0, rows |-> <<>>, total |-> 0, total_pages |-> 0]

\* The database after init_db() and the registration of Alice and Bob;
\* nobody is logged in.
Init ==
    /\ users = {UserRow(1, Alice, AliceMail, Pw1), UserRow(2, Bob, BobMail, Pw2)}
    /\ items = {}
    /\ userSeq = 2
    /\ itemSeq = 0
    /\ clock = 1
    /\ session = [c \in Clients |-> 0]
    /\ pending = [c \in Clients |-> <<>>]
    /\ resp = NoResponse

\* The sessions that send requests here.
Browsers == {"c1"}

Next ==
    \/ \E c \in Browsers, raw \in LoginForms : Login(c, raw)
    \/ \E c \in Browsers : Logout(c)
    \/ \E c \in Browsers : Index(c, <<>>, 1)
    \/ \E c \in Browsers, raw \in ItemForms : itemSeq < MaxItems /\ Create(c, raw)
    \/ \E c \in Browsers, i \in ItemIds : view_item(c, i)
    \/ \E c \in Browsers, i \in ItemIds, raw \in ItemForms : Edit(c, i, raw)
    \/ \E c \in Browsers, i \in ItemIds : Delete(c, i)
    \/ clock < MaxClock /\ Tick

Spec == Init /\ [][Next]_vars

(* ---------------------------------------------------------------------- *)
(* SpecAuth: registration and login.  Two sessions register and log in     *)
(* concurrently against an empty users table.                              *)
(* ---------------------------------------------------------------------- *)

RegForms ==
    {<<Alice, AliceMail, Pw1, Pw1>>,
     <<<<" ", "alice">>, <<"bob@example.com", " ">>, Pw1, Pw1>>,
     <<Bob, AliceMail, Pw2, Pw2>>,
     <<Bob, BobMail, Pw2, Pw2>>,
     <<<<"al">>, <<"alice.example.com">>, <<"short">>, Pw1>>}

AuthLoginForms ==
    {<<Alice, Pw1>>, <<<<"alice", " ">>, Pw2>>, <<Bob, Pw2>>, <<<<"al">>, Pw1>>,
     <<Alice, <<>>>>}

\* The database after init_db(): both tables empty, nobody logged in.
AuthInit ==
    /\ users = {}
    /\ items = {}
    /\ userSeq = 0
    /\ itemSeq = 0
    /\ clock = 1
    /\ session = [c \in Clients |-> 0]
    /\ pending = [c \in Clients |-> <<>>]
    /\ resp = NoResponse

AuthNext ==
    \/ \E c \in Clients, raw \in RegForms : RegisterBegin(c, raw)
    \/ \E c \in Clients : RegisterInsert(c)
    \/ \E c \in Clients, raw \in AuthLoginForms : Login(c, raw)
    \/ \E c \in Clients : Logout(c)

SpecAuth == AuthInit /\ [][AuthNext]_vars

(* ---------------------------------------------------------------------- *)
(* SpecForm: a session sends one create to an empty items table, with the *)
(* title or the description ranging over every text of up to MaxLen        *)
(* lexemes, and reads the created item.                                    *)
(* ---------------------------------------------------------------------- *)

MaxLen == 3

FormAlphabet == {" ", "\n", "a", "<script>", "</SCRIPT>", "'", "or", "1", "=", "--"}

\* Longer texts: the length limits, and the injection examples of the spec.
Samples ==
    {<<"a", PadTitle>>, <<"a", "a", PadTitle>>, <<" ", "a", PadTitle, "\n">>,
     <<"a", PadDesc>>, <<"a", "a", PadDesc>>, <<"\t", "a", PadDesc, " ">>,
     <<"'", " ", "OR", " ", "'", "1", "'", "=", "'", "1">>,
     <<"a", "'", " ", "or", " ", "'", "1", "'", "=", "'", "1">>,
     <<"<script>", "a", " ", "a", "</script>">>,
     <<"a", " ", "<SCRIPT>", "a", "\n", "a", "</SCRIPT>">>,
     <<"drop", " ", "a", " ", "table">>, <<"a", ";", " ", "DROP">>,
     <<"union", " ", "select">>, <<"javascript:", "a">>, <<"<iframe", " ">>,
     <<"onload", " ", "=">>}

Texts == UNION {[1..k -> FormAlphabet] : k \in 0..MaxLen} \cup Samples

FewTitles == {<<"a">>, <<" ">>}
FewDescriptions == {<<>>, <<"b", " ">>}

WideItemForms == (Texts \X FewDescriptions) \cup (FewTitles \X Texts)

\* The session sends its create as its first request or right after its login.
FormNext ==
    \/ Login("c1", <<Alice, Pw1>>)
    \/ /\ itemSeq = 0
       /\ resp.op \in {"none", "login"}
       /\ \E raw \in WideItemForms : Create("c1", raw)
    \/ \E i \in 1..2 : view_item("c1", i)

SpecForm == Init /\ [][FormNext]_vars

(* ---------------------------------------------------------------------- *)
(* SpecList: index() on a table of up to MaxN items, created up to MaxTie  *)
(* per second.                                                             *)
(* ---------------------------------------------------------------------- *)

MaxN == 13
MaxTie == 2
MaxPage == 4

\* Item i of the table: odd items are titled "a", even items "b".
ListItem(i, per) ==
    [id |-> i, title |-> IF i % 2 = 1 THEN <<"a">> ELSE <<"b">>,
     description |-> <<>>, user_id |-> 1, created_at |-> ((i - 1) \div per) + 1]

ListQueries == {<<>>, <<" ", "A">>}

\* The database after n creates by Alice, per of them in each second.
ListInit ==
    /\ users = {UserRow(1, Alice, AliceMail, Pw1), UserRow(2, Bob, BobMail, Pw2)}
    /\ \E n \in 0..MaxN, per \in 1..MaxTie :
          /\ items = {ListItem(i, per) : i \in 1..n}
          /\ itemSeq = n
          /\ clock = IF n = 0 THEN 1 ELSE ((n - 1) \div per) + 1
    /\ userSeq = 2
    /\ session = [c \in Clients |-> 0]
    /\ pending = [c \in Clients |-> <<>>]
    /\ resp = NoResponse

ListNext == \E q \in ListQueries, p \in 0..MaxPage : Index("c1", q, p)

SpecList == ListInit /\ [][ListNext]_vars

(* ---------------------------------------------------------------------- *)
(* SpecSession: the session cookie.  The application configures no         *)
(* server-side session store: the identity binding is a field of the       *)
(* signed cookie the browser holds.  A request carries the cookie the      *)
(* browser holds when it sends, a handler that changes the session (login, *)
(* logout, flash) answers with the whole session in Set-Cookie, and the    *)
(* browser takes the cookie of each response when that response arrives.   *)
(* session[c] is the binding in the cookie browser c holds; pending[c] are *)
(* its requests and responses in flight (the server is threaded).          *)
(* ---------------------------------------------------------------------- *)

MaxInFlight == 2

\* A request of browser c, with the cookie c holds now.
Request(c, op, form, arg) ==
    [phase |-> "request", op |-> op, form |-> form, arg |-> arg,
     cookie |-> session[c], status |-> "sent", set_cookie |-> <<>>]

\* The browser sends a request.
Send(c, op, form, arg) ==
    /\ Len(pending[c]) < MaxInFlight
    /\ pending' = [pending EXCEPT ![c] = Append(@, Request(c, op, form, arg))]
    /\ UNCHANGED <<users, items, userSeq, itemSeq, clock, session, resp>>

\* What a handler answers to request m and the items it leaves: status, arg,
\* the binding in the Set-Cookie header (<<>> when the handler did not touch
\* the session) and the items table.  current_user is read from m.cookie.
Outcome(status, arg, set_cookie, table) ==
    [status |-> status, arg |-> arg, set_cookie |-> set_cookie, items |-> table]

\* @login_required on an anonymous request: flash(login_message), redirect.
Unauthorized(m) == Outcome("login_required", m.arg, <<0>>, items)

Handle(m) ==
    IF m.op = "login" THEN
        LET form == LoginForm(m.form)
            found == {u \in users : u.username = form.username}
        IN  IF m.cookie # 0 THEN Outcome("redirect", 0, <<>>, items)
            ELSE IF form.errors # {} THEN Outcome("invalid", 0, <<>>, items)
            ELSE IF \E u \in found : check_password_hash(u.password_hash, form.password)
            THEN LET u == CHOOSE u \in found : TRUE
                 IN  Outcome("ok", u.id, <<u.id>>, items)
            ELSE Outcome("invalid_credentials", 0, <<m.cookie>>, items)
    ELSE IF m.cookie = 0 THEN Unauthorized(m)
    ELSE IF m.op = "logout" THEN Outcome("ok", 0, <<0>>, items)
    ELSE IF m.op = "create" THEN
        LET form == ItemForm(m.form)
        IN  IF form.errors = {}
            THEN Outcome("ok", 0, <<m.cookie>>,
                         items \cup {InsertItem(form.title, form.description, m.cookie)})
            ELSE Outcome("invalid", 0, <<m.cookie>>, items)
    ELSE Outcome("ok", m.arg, <<m.cookie>>, DeleteRows(items, m.arg))

\* The server handles the i-th message in flight of browser c, a request.
Serve(c, i) ==
    /\ i \in DOMAIN pending[c]
    /\ pending[c][i].phase = "request"
    /\ \E m \in {pending[c][i]} : \E out \in {Handle(m)} :
          /\ items' = out.items
          /\ itemSeq' = IF m.op = "create" /\ out.items # items
                        THEN itemSeq + 1 ELSE itemSeq
          /\ pending' = [pending EXCEPT ![c][i] =
                            [m EXCEPT !.phase = "response", !.status = out.status,
                                      !.arg = out.arg, !.set_cookie = out.set_cookie]]
          /\ resp' = [NoResponse EXCEPT !.op = m.op, !.client = c, !.user = m.cookie,
                                        !.status = out.status, !.form = m.form,
                                        !.arg = out.arg]
    /\ UNCHANGED <<users, userSeq, clock, session>>

\* seq without its i-th element.
Remove(seq, i) == SubSeq(seq, 1, i - 1) \o SubSeq(seq, i + 1, Len(seq))

\* The i-th message in flight of browser c, a response, arrives: the browser
\* replaces its cookie by the one the response sets.
Receive(c, i) ==
    /\ i \in DOMAIN pending[c]
    /\ pending[c][i].phase = "response"
    /\ session' = IF pending[c][i].set_cookie = <<>> THEN session
                  ELSE [session EXCEPT ![c] = pending[c][i].set_cookie[1]]
    /\ pending' = [pending EXCEPT ![c] = Remove(@, i)]
    /\ UNCHANGED <<users, items, userSeq, itemSeq, clock, resp>>

\* The create requests of browser c that are not served yet.
CreatesInFlight(c) ==
    Cardinality({i \in DOMAIN pending[c] :
                    pending[c][i].phase = "request" /\ pending[c][i].op = "create"})

SessionItemForm == <<<<"a">>, <<>>>>

SessionNext ==
    \/ \E raw \in LoginForms : Send("c1", "login", raw, 0)
    \/ Send("c1", "logout", <<>>, 0)
    \/ /\ itemSeq + CreatesInFlight("c1") < MaxItems
       /\ Send("c1", "create", SessionItemForm, 0)
    \/ \E i \in 1..MaxItems : Send("c1", "delete", <<>>, i)
    \/ \E i \in 1..MaxInFlight : Serve("c1", i)
    \/ \E i \in 1..MaxInFlight : Receive("c1", i)

SpecSession == Init /\ [][SessionNext]_vars

(* ---------------------------------------------------------------------- *)
(* Properties                                                              *)
(* ---------------------------------------------------------------------- *)

Min(a, b) == IF a < b THEN a ELSE b
Max(a, b) == IF a > b THEN a ELSE b

\* A submitted <<title, description>> within the limits of the item form:
\* title of 1..250 characters, description of at most 5000, no suspicious
\* pattern in either.
Acceptable(pair) ==
    /\ StrLen(pair[1]) >= 1
    /\ StrLen(pair[1]) <= 250
    /\ StrLen(pair[2]) <= 5000
    /\ ~reject_malicious_input(pair[1])
    /\ ~reject_malicious_input(pair[2])

Trimmed(pair) == <<Strip(pair[1]), Strip(pair[2])>>

\* view_item answers with the stored row of the id, or not_found.
ReadsStoredRow ==
    resp.op = "view" =>
        IF \E r \in items : r.id = resp.arg
        THEN resp.status = "ok" /\ Len(resp.rows) = 1 /\ resp.rows[1] \in items
             /\ resp.rows[1].id = resp.arg
        ELSE resp.status = "not_found" /\ resp.rows = <<>>

\* C1, as stated: a create by an authenticated user of a pair whose
\* submitted title has 1..250 characters and submitted description at most
\* 5000, with no suspicious pattern, succeeds and stores exactly the
\* submitted title and description, which a read then returns.
C1_StoredAsSubmitted ==
    /\ (resp.op = "create" /\ resp.user # 0 /\ Acceptable(resp.form)) =>
            /\ resp.status = "ok"
            /\ \E r \in items :
                  /\ r.id = itemSeq
                  /\ r.title = resp.form[1]
                  /\ r.description = resp.form[2]
    /\ ReadsStoredRow

\* C1, amended: a create by an authenticated user of a pair that is within
\* the limits after trimming succeeds and stores the trimmed title and
\* description under the user's id, and the read that follows the create
\* returns exactly the trimmed title and description.
C1_StoredTrimmed ==
    [][/\ (resp'.op = "create" /\ resp'.user # 0 /\ Acceptable(Trimmed(resp'.form))) =>
            /\ resp'.status = "ok"
            /\ itemSeq' = itemSeq + 1
            /\ items' = items \cup
                  {[id |-> itemSeq', title |-> Strip(resp'.form[1]),
                    description |-> Strip(resp'.form[2]),
                    user_id |-> resp'.user, created_at |-> clock]}
       /\ (resp.op = "create" /\ resp.status = "ok"
           /\ resp'.op = "view" /\ resp'.arg = itemSeq) =>
            /\ resp'.status = "ok"
            /\ Len(resp'.rows) = 1
            /\ resp'.rows[1].title = Strip(resp.form[1])
            /\ resp'.rows[1].description = Strip(resp.form[2])
       /\ ReadsStoredRow']_vars

\* A title of 250 characters between blanks was created: trimming acted.
C1_Witness ==
    /\ resp.op = "create"
    /\ resp.status = "ok"
    /\ resp.form[1] # Strip(resp.form[1])
    /\ StrLen(Strip(resp.form[1])) = 250
    /\ \E r \in items : r.title = Strip(resp.form[1])

\* C2: a create by an authenticated user whose title is empty after
\* trimming fails with MissingField on the title, whatever the description,
\* and inserts no row.
C2_BlankTitleMissingField ==
    [][(resp'.op = "create" /\ resp'.user # 0 /\ Strip(resp'.form[1]) = <<>>) =>
            /\ resp'.status = "invalid"
            /\ <<"title", "MissingField">> \in resp'.errors
            /\ items' = items
            /\ itemSeq' = itemSeq]_vars

\* A title of blanks only, with a description, was refused.
C2_Witness ==
    /\ resp.op = "create"
    /\ resp.user # 0
    /\ resp.form[1] # <<>>
    /\ Strip(resp.form[1]) = <<>>
    /\ resp.form[2] # <<>>
    /\ <<"title", "MissingField">> \in resp.errors
    /\ items = {}

\* The page count of n rows: the least k >= 1 with 6 * k >= n.
PagesOf(n) == CHOOSE k \in 1..(n + 1) : 6 * k >= n /\ (k = 1 \/ 6 * (k - 1) < n)

\* C3: with N matching items and page p >= 1, index returns
\* min(6, max(0, N - (p-1)*6)) rows, which are the rows at offset (p-1)*6 of
\* an ordering of the matching rows by descending creation time; the total is
\* N whatever the page and the page count is max(1, ceil(N/6)).
C3_Pagination ==
    resp.op = "index" =>
        LET p == Max(1, resp.arg)
            M == Matching(Strip(resp.form[1]))
            N == Cardinality(M)
            off == (p - 1) * 6
            rows == resp.rows
        IN  /\ resp.total = N
            /\ resp.total_pages = PagesOf(N)
            /\ Len(rows) = Min(6, Max(0, N - off))
            /\ \A i \in 1..Len(rows) :
                  /\ rows[i] \in M
                  /\ Cardinality({m \in M : m.created_at > rows[i].created_at})
                        <= off + i - 1
                  /\ Cardinality({m \in M : m.created_at >= rows[i].created_at})
                        >= off + i
            /\ \A i, j \in 1..Len(rows) : i < j => rows[i] # rows[j]

\* 13 items: page 3 holds one row, of 3 pages.
C3_Witness ==
    /\ resp.op = "index"
    /\ resp.arg = 3
    /\ resp.total = 13
    /\ Len(resp.rows) = 1
    /\ resp.total_pages = 3

\* C4: the rows index returns are in descending creation time, and rows of
\* the same creation time in descending id.
C4_TiesByIdDescending ==
    resp.op = "index" =>
        \A i, j \in 1..Len(resp.rows) :
            i < j =>
                \/ resp.rows[i].created_at > resp.rows[j].created_at
                \/ /\ resp.rows[i].created_at = resp.rows[j].created_at
                   /\ resp.rows[i].id > resp.rows[j].id

\* The login form passes its validators: a username that is not blank and of
\* at most 50 characters after trimming, and a password that is not blank.
LoginFormOK(raw) ==
    /\ Strip(raw[1]) # <<>>
    /\ StrLen(Strip(raw[1])) <= 50
    /\ Strip(raw[2]) # <<>>

\* The stored users a login form names with their registered password.
Authenticates(raw) ==
    {u \in users : /\ u.username = Strip(raw[1])
                   /\ u.password_hash = generate_password_hash(raw[2])}

\* C5: a login that reaches the credential check (an anonymous session, a
\* form that passes its validators) with an unknown username or with a wrong
\* password gets one and the same response, invalid_credentials, and no
\* identity binding; with a registered username and its password it succeeds
\* and binds the session to that user's id.
C5_Authenticate ==
    (resp.op = "login" /\ resp.user = 0 /\ LoginFormOK(resp.form)) =>
        IF Authenticates(resp.form) = {}
        THEN /\ resp = [NoResponse EXCEPT !.op = "login", !.client = resp.client,
                                          !.status = "invalid_credentials",
                                          !.form = resp.form]
             /\ session[resp.client] = 0
        ELSE /\ resp.status = "ok"
             /\ \A u \in Authenticates(resp.form) :
                   session[resp.client] = u.id /\ resp.arg = u.id

\* A registered username with a wrong password was refused.
C5_Witness ==
    /\ resp.op = "login"
    /\ resp.status = "invalid_credentials"
    /\ \E u \in users : u.username = Strip(resp.form[1])
    /\ session[resp.client] = 0

\* The registration form passes its validators.
RegFormOK(raw) == RegistrationForm(raw).errors = {}

\* C6: a register request (anonymous session, valid form) whose username or
\* email is held by a stored user when it is answered gets the
\* DuplicateIdentity message, in every interleaving.
C6_DuplicateIsAMessage ==
    (/\ resp.op = "register"
     /\ resp.user = 0
     /\ RegFormOK(resp.form)
     /\ \E u \in users :
           /\ u.username = Strip(resp.form[1]) \/ u.email = Strip(resp.form[2])
           /\ ~(resp.status = "ok" /\ u.id = resp.arg))
        => resp.status = "duplicate"

\* C7: no two stored users share a username, an email or an id.
C7_UniqueIdentity ==
    \A u, v \in users :
        u # v => u.username # v.username /\ u.email # v.email /\ u.id # v.id

\* Two users are stored and the INSERT of a concurrent duplicate was refused.
C7_Witness ==
    /\ Cardinality(users) = 2
    /\ resp.op = "register"
    /\ resp.status = "error500"

\* C8: a delete by an authenticated session never errors, removes the row
\* of its id and no other, and leaves a table that a second delete of the
\* same id does not change; a delete of an id that is not stored changes
\* nothing.
C8_DeleteIdempotent ==
    [][(resp'.op = "delete" /\ resp'.user # 0) =>
            /\ resp'.status = "ok"
            /\ items' = {r \in items : r.id # resp'.arg}
            /\ \A r \in items' : r.id # resp'.arg
            /\ (~\E r \in items : r.id = resp'.arg) => items' = items]_vars

\* A delete of an id that was assigned and is no longer stored, with other
\* rows still in the table.
C8_Witness ==
    /\ resp.op = "delete"
    /\ resp.status = "ok"
    /\ resp.arg <= itemSeq
    /\ ~\E r \in items : r.id = resp.arg
    /\ items # {}

\* A text that contains <script> ... </script>, in any letter case.
HasScript(s) ==
    \E i, j \in DOMAIN s :
        i < j /\ ToUpper(s[i]) = "<SCRIPT>" /\ ToUpper(s[j]) = "</SCRIPT>"

\* A text that contains ' OR '1'='1, in any letter case.
HasTautology(s) ==
    \E i \in DOMAIN s :
        /\ i + 9 <= Len(s)
        /\ Upper(SubSeq(s, i, i + 9)) = <<"'", " ", "OR", " ", "'", "1", "'", "=", "'", "1">>

\* C9: a create whose title or description contains a script fragment or a
\* tautology fragment fails with SuspiciousInput on that field and stores
\* nothing.
C9_FragmentsRejected ==
    (resp.op = "create" /\ resp.user # 0) =>
        \A k \in 1..2 :
            (HasScript(resp.form[k]) \/ HasTautology(resp.form[k])) =>
                /\ resp.status = "invalid"
                /\ <<IF k = 1 THEN "title" ELSE "description", "SuspiciousInput">>
                      \in resp.errors
                /\ items = {}

\* C10: a successful edit of item i sets the title and the description of
\* item i to the trimmed submitted values and changes nothing else: id, owner
\* and created_at of item i and every other row are kept; an edit of an id
\* that is not stored, or with a form that fails validation, changes no row.
C10_EditFrame ==
    [][resp'.op = "edit" =>
            /\ resp'.status = "ok" =>
                  /\ \E r \in items : r.id = resp'.arg
                  /\ items' =
                        {IF r.id = resp'.arg
                         THEN [id |-> r.id, title |-> Strip(resp'.form[1]),
                               description |-> Strip(resp'.form[2]),
                               user_id |-> r.user_id, created_at |-> r.created_at]
                         ELSE r : r \in items}
            /\ resp'.status # "ok" => items' = items
            /\ ((~\E r \in items : r.id = resp'.arg)
                \/ ~Acceptable(Trimmed(resp'.form))) =>
                  items' = items /\ resp'.status # "ok"
            /\ itemSeq' = itemSeq]_vars

\* Bob edited, a second later, an item that Alice created, with another item
\* in the table.
C10_Witness ==
    /\ resp.op = "edit"
    /\ resp.status = "ok"
    /\ Cardinality(items) = 2
    /\ \E r \in items :
          /\ r.id = resp.arg
          /\ r.user_id # resp.user
          /\ r.created_at < clock
          /\ r.title = Strip(resp.form[1])

\* C11: after a successful logout, the last request the server handled, has
\* left the session without an identity binding, the session stays without
\* one until a successful authenticate: the arrival of a response to any
\* other request does not bind it; and a request that carries no binding
\* changes no item.
C11_LogoutInvalidates ==
    [][/\ \A c \in Browsers : \A i \in DOMAIN pending[c] :
             (/\ resp.op = "logout"
              /\ resp.status = "ok"
              /\ resp.client = c
              /\ session[c] = 0
              /\ pending[c][i].op # "login"
              /\ pending'[c] = Remove(pending[c], i)) => session'[c] = 0
       /\ items' # items => resp'.user # 0]_vars

\* The second half of C11 alone: a request that carries no binding changes
\* no item.
C11_UnboundChangesNothing ==
    [][items' # items => resp'.user # 0]_vars

====
